---- MODULE Spec2Model ----
(***************************************************************************)
(* NyayaSetu backend: the document-type verification service               *)
(* (documentVerificationService), the document controller that calls it,   *)
(* and the fund-allocation model and controller.                           *)
(*                                                                         *)
(* Strings are TLA+ strings; JavaScript's String.prototype.includes,       *)
(* toLowerCase, trim and replace are computed character by character.      *)
(* The Devanagari keywords of DOCUMENT_KEYWORDS are written as ASCII       *)
(* placeholders "@hN@.." of the same UTF-16 length (the module language    *)
(* has ASCII strings only); no placeholder contains or is contained in     *)
(* another keyword, as is the case for the originals.                      *)
(*                                                                         *)
(* A confidence is the exact rational score/maxScore, kept as              *)
(* [num, den].  The code divides two small integers in IEEE doubles and    *)
(* compares with the literals 0.08, 0.10, 0.15; division and literals are  *)
(* both correctly rounded and the rationals involved differ by far more    *)
(* than one ulp unless they are equal, so the order of the doubles is the  *)
(* order of the rationals.                                                 *)
(***************************************************************************)
EXTENDS Integers, Sequences, FiniteSets, TLC

(***************************************************************************)
(* String primitives                                                       *)
(***************************************************************************)
UpperCase == "ABCDEFGHIJKLMNOPQRSTUVWXYZ"
LowerCase == "abcdefghijklmnopqrstuvwxyz"

\* the i-th character of s, as a string of length 1
CharAt(s, i) == SubSeq(s, i, i)

LowerMap == [i \in 1..26 |-> <<CharAt(UpperCase, i), CharAt(LowerCase, i)>>]

LowerChar(c) ==
  IF \E i \in 1..26 : LowerMap[i][1] = c
  THEN LowerMap[CHOOSE i \in 1..26 : LowerMap[i][1] = c][2]
  ELSE c

RECURSIVE toLowerCase(_)
toLowerCase(s) ==
  IF Len(s) = 0 THEN s
  ELSE LowerChar(CharAt(s, 1)) \o toLowerCase(SubSeq(s, 2, Len(s)))

IsSpace(c) == c \in {" ", "\n", "\t"}

RECURSIVE trimStart(_)
trimStart(s) ==
  IF Len(s) > 0 /\ IsSpace(CharAt(s, 1)) THEN trimStart(SubSeq(s, 2, Len(s))) ELSE s

RECURSIVE trimEnd(_)
trimEnd(s) ==
  IF Len(s) > 0 /\ IsSpace(CharAt(s, Len(s))) THEN trimEnd(SubSeq(s, 1, Len(s) - 1)) ELSE s

trim(s) == trimEnd(trimStart(s))

\* String.prototype.includes: kw occurs in text as a contiguous substring
includes(text, kw) ==
  \E i \in 1..(Len(text) - Len(kw) + 1) : SubSeq(text, i, i + Len(kw) - 1) = kw

\* s.replace(/[_-]/g, '')
RECURSIVE stripSeparators(_)
stripSeparators(s) ==
  IF Len(s) = 0 THEN s
  ELSE (IF CharAt(s, 1) \in {"_", "-"} THEN "" ELSE CharAt(s, 1))
         \o stripSeparators(SubSeq(s, 2, Len(s)))

normalizeType(t) == stripSeparators(toLowerCase(t))

(***************************************************************************)
(* DOCUMENT_KEYWORDS, in the order Object.entries enumerates it            *)
(***************************************************************************)
DOCUMENT_KEYWORDS ==
  [ fir |->
      [ required |-> <<
          "first information report", "form if1", "integrated form", "section 154 cr.p.c",
          "f.i.r. no", "f.i.r no", "fir no", "occurrence of offence",
          "complainant / information", "complainant/information",
          "general diary reference", "officer-in-charge, police station",
          "signature of the officer-in-charge", "informant free of cost",
          "investigation transferred to p.s", "action taken", "commission of offence",
          "date & time of despatch to the court"
        >>,
        supportive |-> <<
          "p.s.", "police station", "dist.", "district", "act", "sections", "ipc", "bns",
          "crpc", "accused", "complainant", "informant", "type of information", "written",
          "oral", "place of occurrence", "beat no", "father's name", "husband's name",
          "properties stolen", "inquest report", "f.i.r. contents", "rank",
          "thumb-impression"
        >>,
        minConfidenceScore |-> [num |-> 10, den |-> 100] ],
    casteCertificate |->
      [ required |-> <<
          "caste certificate", "caste certificate (part-a)", "@h1@@@@@@@@@", "@h2@@@@@@@",
          "@h3@@@@@@@@@@@@@", "form - 8", "form 8",
          "socially and educationally backward class", "sebc",
          "non-creamy layer certificate", "non-creamy layer certificate (part-b)",
          "creamy-layer", "sebc act", "this is to certify that", "belongs to the",
          "state of maharashtra", "sub divisional officer", "@h4@@@@@@@@@@@@@@@",
          "other backward class", "scheduled caste", "scheduled tribe",
          "de-notified tribe", "vimukt jati", "nomadic tribe", "special backward category",
          "government resolution", "social justice & special assistance", "cbc-10/2013",
          "government of maharashtra gazette", "outward no", "reg./case no",
          "certificate sr. no", "mahaonline.gov.in", "www.mahaonline.gov.in/verify",
          "digitally signed", "information technology (it) act", "legally valid",
          "verify visit", "20 digit barcode number"
        >>,
        supportive |-> <<
          "documents verified", "school leaving certificate", "income certificate",
          "tahsildar", "photo id", "ration card", "electoral photo id", "tehsil", "taluka",
          "district", "village", "ordinarily resides", "ordinarily reside", "family",
          "son of", "daughter of", "amended from time to time", "recognised as", "place",
          "date", "seal of office", "with the seal of office", "printed by", "omtid",
          "vle name", "sdo", "dy.col", "valid for the period", "date of issue",
          "signature valid"
        >>,
        minConfidenceScore |-> [num |-> 8, den |-> 100] ],
    aadhaar |->
      [ required |-> <<
          "aadhaar", "@h5@", "unique identification", "uidai"
        >>,
        supportive |-> <<
          "government of india", "address", "dob", "male", "female", "vid"
        >>,
        minConfidenceScore |-> [num |-> 15, den |-> 100] ],
    medical |->
      [ required |-> <<
          "medical certificate", "medical report", "hospital", "doctor", "diagnosis"
        >>,
        supportive |-> <<
          "patient", "treatment", "injury", "prescription", "clinical"
        >>,
        minConfidenceScore |-> [num |-> 15, den |-> 100] ],
    bankPassbook |->
      [ required |-> <<
          "bank passbook", "account statement", "bank account", "savings account"
        >>,
        supportive |-> <<
          "ifsc", "branch", "balance", "transaction", "deposit", "withdrawal"
        >>,
        minConfidenceScore |-> [num |-> 15, den |-> 100] ],
    marriageCertificate |->
      [ required |-> <<
          "certificate of marriage", "marriage certificate", "marriage registration",
          "compulsory marriage registration", "certified that a marriage between",
          "marriage between", "duly registered", "solemnized at", "date of marriage",
          "date of registration", "groom", "bride", "husband", "wife", "marriage officer",
          "marriage registrar", "signature of groom", "signature of bride", "witness"
        >>,
        supportive |-> <<
          "son of", "daughter of", "father's name", "mother's name", "age of the groom",
          "age of the bride", "born on", "date of birth", "resident at",
          "address of the groom", "address of the bride", "office of marriage officer",
          "district magistrate", "particulars furnished", "delhi", "mumbai", "maharashtra",
          "digitally signed", "information technology act", "order-2014", "order 2014",
          "revenue department"
        >>,
        minConfidenceScore |-> [num |-> 8, den |-> 100] ],
    scstCertificate |->
      [ required |-> <<
          "scheduled caste", "scheduled tribe", "form of caste certificate",
          "@h6@@@@@@@@@@@@", "@h7@@@@@@@@@@", "@h8@@@@@@@@@@@@", "presidential order",
          "constitution (scheduled castes) order", "constitution (scheduled tribes) order",
          "this is to certify that", "belongs to the", "recognised as a scheduled caste",
          "recognised as a scheduled tribe", "scheduled caste and scheduled tribes lists",
          "scheduled castes union territories order",
          "scheduled tribes union territories order", "reorganisation act",
          "himachal pradesh act", "north eastern area",
          "jammu and kashmir scheduled castes order", "andaman and nicobar islands",
          "dadra and nagar haveli", "pondicherry", "uttar pradesh order",
          "goa daman and diu", "nagaland", "sikkim"
        >>,
        supportive |-> <<
          "son of", "daughter of", "wife of", "shri", "smt", "kumari", "village", "town",
          "district", "division", "state", "union territory", "caste", "tribe",
          "community", "migrated from", "administration", "issued on the basis",
          "district magistrate", "collector", "tehsildar", "certificate issued to"
        >>,
        minConfidenceScore |-> [num |-> 8, den |-> 100] ],
    otherCasteCertificate |->
      [ required |-> <<
          "socially and educationally backward class", "sebc", "obc",
          "other backward class", "backward class", "caste certificate (part-a)",
          "caste certificate part-a", "non-creamy layer certificate",
          "non-creamy layer certificate (part-b)", "non-creamy layer", "creamy-layer",
          "@h1@@@@@@@@@", "@h2@@@@@@@", "this is to certify that", "belongs to the",
          "state of maharashtra", "government resolution", "social justice",
          "special assistance", "maratha", "kunbi", "vimukt jati", "de-notified tribe",
          "nomadic tribe", "special backward category"
        >>,
        supportive |-> <<
          "son of", "daughter of", "village", "taluka", "district", "nanded", "pune",
          "government of maharashtra gazette", "maharashtra state reservation",
          "cbc-10/2013", "pra.kra", "mavak", "vjnt", "vjnt-1", "sub divisional officer",
          "sdo", "dy.col", "outward no", "reg./case no", "mahaonline.gov.in",
          "digitally signed", "valid for the period", "date of issue",
          "documents verified", "school leaving certificate", "income certificate",
          "tahsildar", "photo id"
        >>,
        minConfidenceScore |-> [num |-> 8, den |-> 100] ],
    addressProof |->
      [ required |-> <<
          "electricity bill", "electric bill", "water bill", "property tax",
          "gas connection", "gas bill", "proof of address", "utility bill",
          "consumer number", "bill number", "meter number", "service connection"
        >>,
        supportive |-> <<
          "billing date", "due date", "amount due", "units consumed", "reading",
          "previous reading", "current reading", "residential", "domestic",
          "consumer name", "address", "flat", "society", "plot", "ward", "mahanagar gas",
          "msedcl", "tata power", "adani", "municipal corporation", "nagar palika"
        >>,
        minConfidenceScore |-> [num |-> 10, den |-> 100] ] ]

(***************************************************************************)
(* Inputs: the texts a file may hold are the concatenations, in list       *)
(* order, of at most MaxFragments of the fragments below.                  *)
(***************************************************************************)
MaxFragments == 2

\* the number of requests the controller receives in a behaviour
MaxRequests == 2

\* the number of requests fundController receives in a behaviour
MaxFundRequests == 3

Fragments ==
  << "  \n",
     "quick brown fox jumps over the lazy dog. ",
     "FIR No 7 ",
     "First Information Report, Action Taken ",
     "Aadhaar UIDAI ",
     "hospital. ",
     "Caste Certificate ",
     "SEBC OBC Maratha Kunbi ",
     "Police Station, District " >>

RECURSIVE joinFragments(_, _)
joinFragments(S, i) ==
  IF i > Len(Fragments) THEN ""
  ELSE (IF i \in S THEN Fragments[i] ELSE "") \o joinFragments(S, i + 1)

RawTexts ==
  { joinFragments(S, 1) :
      S \in {T \in SUBSET (1..Len(Fragments)) : Cardinality(T) <= MaxFragments} }

\* toLowerCase on the texts above and on the keywords, evaluated once per string
Keywords ==
  UNION { { DOCUMENT_KEYWORDS[t].required[i] : i \in DOMAIN DOCUMENT_KEYWORDS[t].required }
            \cup { DOCUMENT_KEYWORDS[t].supportive[i] :
                     i \in DOMAIN DOCUMENT_KEYWORDS[t].supportive } :
          t \in DOMAIN DOCUMENT_KEYWORDS }

lowerTable == [t \in RawTexts \cup Keywords |-> toLowerCase(t)]

lower(text) == IF text \in DOMAIN lowerTable THEN lowerTable[text] ELSE toLowerCase(text)

LowerTexts == { lower(t) : t \in RawTexts }


DocTypeOrder ==
  << "fir", "casteCertificate", "aadhaar", "medical", "bankPassbook",
     "marriageCertificate", "scstCertificate", "otherCasteCertificate", "addressProof" >>

(***************************************************************************)
(* Confidences                                                             *)
(***************************************************************************)
Zero == [num |-> 0, den |-> 1]

\* a > b and a >= b on confidences (denominators are positive)
Greater(a, b) == a.num * b.den > b.num * a.den
AtLeast(a, b) == a.num * b.den >= b.num * a.den

\* obj.key || dflt for an object that may lack the key
Field(obj, key, dflt) == IF key \in DOMAIN obj THEN obj[key] ELSE dflt

(***************************************************************************)
(* classifyDocument                                                        *)
(***************************************************************************)
SupportiveWeight == 1
\* a required keyword weighted like a supportive one
RequiredWeight_unweighted == SupportiveWeight
RequiredWeight == 3

\* the keywords of kws that text contains, in list order (one loop of the two)
RECURSIVE matchKeywords(_, _)
matchKeywords(text, kws) ==
  IF kws = <<>> THEN <<>>
  ELSE (IF includes(text, lower(Head(kws))) THEN <<Head(kws)>> ELSE <<>>)
         \o matchKeywords(text, Tail(kws))

storeScore_anyMatch(requiredMatches, matchedKeywords, confidence) ==
  IF Len(matchedKeywords) > 0 THEN confidence ELSE Zero
\* scores[docType] = requiredMatches > 0 ? confidence : 0
storeScore(requiredMatches, matchedKeywords, confidence) ==
  IF requiredMatches > 0 THEN confidence ELSE Zero

\* lines 894-900: the confidence of one type and what is stored for it
scoreOf(requiredMatched, supportiveMatched, maxScore) ==
  [ score |->
      storeScore(Len(requiredMatched), requiredMatched \o supportiveMatched,
                 IF maxScore > 0
                 THEN [num |-> RequiredWeight * Len(requiredMatched)
                                 + SupportiveWeight * Len(supportiveMatched),
                       den |-> maxScore]
                 ELSE Zero),
    matchedKeywords |-> requiredMatched \o supportiveMatched ]

\* one iteration of the loop over Object.entries(DOCUMENT_KEYWORDS)
scoreDocType(text, config) ==
  scoreOf(matchKeywords(text, config.required),
          matchKeywords(text, config.supportive),
          (Len(config.required) * 3) + (Len(config.supportive) * 1))

\* the loop that finds the highest scoring type: strictly greater replaces
RECURSIVE findMax(_, _, _, _)
findMax(scores, order, maxType, maxConfidence) ==
  IF order = <<>> THEN [detectedType |-> maxType, confidence |-> maxConfidence]
  ELSE IF Greater(scores[Head(order)], maxConfidence)
       THEN findMax(scores, Tail(order), Head(order), scores[Head(order)])
       ELSE findMax(scores, Tail(order), maxType, maxConfidence)

\* lines 920-925: the returned object
classificationResult(best, scores, allMatchedKeywords) ==
  [ detectedType    |-> best.detectedType,
    confidence      |-> best.confidence,
    allScores       |-> scores,
    matchedKeywords |-> IF best.detectedType \in DOMAIN allMatchedKeywords
                        THEN allMatchedKeywords[best.detectedType]
                        ELSE <<>> ]

\* lines 907-925 on the per-type results of the first loop
classifyScored(perType, scores) ==
  classificationResult(findMax(scores, DocTypeOrder, "unknown", Zero), scores,
                 [t \in DOMAIN perType |-> perType[t].matchedKeywords])

classifyPerType(perType) ==
  classifyScored(perType, [t \in DOMAIN perType |-> perType[t].score])

classifyDocument(text) ==
  IF Len(text) = 0 \/ Len(trim(text)) = 0
  THEN [ detectedType |-> "unknown", confidence |-> Zero,
         allScores |-> [t \in {} |-> Zero], matchedKeywords |-> <<>> ]
  ELSE classifyPerType([t \in DOMAIN DOCUMENT_KEYWORDS |->
                          scoreDocType(text, DOCUMENT_KEYWORDS[t])])

(***************************************************************************)
(* getDocumentLabel                                                        *)
(***************************************************************************)
labels ==
  [ fir |-> "FIR (First Information Report)",
    casteCertificate |-> "Caste Certificate",
    castecertificate |-> "Caste Certificate",
    aadhaar |-> "Aadhaar Card",
    medical |-> "Medical Report",
    bankPassbook |-> "Bank Passbook",
    bankpassbook |-> "Bank Passbook",
    marriageCertificate |-> "Marriage Certificate",
    marriagecertificate |-> "Marriage Certificate",
    scstCertificate |-> "SC/ST Caste Certificate",
    scstcertificate |-> "SC/ST Caste Certificate",
    otherCasteCertificate |-> "OBC/SEBC Caste Certificate",
    othercastecertificate |-> "OBC/SEBC Caste Certificate",
    addressProof |-> "Address Proof (Utility Bill)",
    addressproof |-> "Address Proof (Utility Bill)" ]

getDocumentLabel(docType) == IF docType \in DOMAIN labels THEN labels[docType] ELSE docType

\* classifyDocument on the texts above, evaluated once per text
classifyTable == [t \in RawTexts \cup LowerTexts |-> classifyDocument(t)]

classify(text) ==
  IF text \in DOMAIN classifyTable THEN classifyTable[text] ELSE classifyDocument(text)

FileBuffers == [format : {"pdf", "image"}, text : RawTexts]

MimeTypes == {"application/pdf", "image/jpeg", "image/png", "application/msword"}

ExpectedTypes ==
  {"fir", "aadhaar", "aadhar", "casteCertificate", "caste", "caste_certificate"}

ApiKeys == {"", "your_api_key_here", "AIza-key"}
ApiOutcomes == {"ok", "apiError", "requestFailed"}

\* what the HTTP call to the Vision API can do in a call of verifyDocumentType:
\* it is only made for an image mime type and a configured key
ApiOutcomesOf(mimeType, key) ==
  IF mimeType \in {"image/jpeg", "image/jpg", "image/png"}
       /\ key # "" /\ key # "your_api_key_here"
  THEN ApiOutcomes
  ELSE {"notCalled"}

(***************************************************************************)
(* Text extraction.  A file buffer is [format, text]: what the bytes are   *)
(* ("pdf" or "image") and the text a successful extraction yields from     *)
(* them.  pdfParse is the module-level binding (FALSE when the require     *)
(* failed), apiKey is process.env.GOOGLE_CLOUD_VISION_API_KEY ("" when     *)
(* unset), apiOutcome is what the HTTP call to the Vision API does.        *)
(* An extraction result is [ok, text]; null is Null.                       *)
(***************************************************************************)
Null == [ok |-> FALSE, text |-> ""]
Extracted(s) == [ok |-> TRUE, text |-> s]

extractTextFromPDF_emptyOnMissing(pdfBuffer, pdfParseLoaded) ==
  IF ~pdfParseLoaded THEN Extracted("")
  ELSE IF pdfBuffer.format # "pdf" THEN Null
  ELSE Extracted(lower(pdfBuffer.text))
extractTextFromPDF(pdfBuffer, pdfParseLoaded) ==
  IF ~pdfParseLoaded THEN Null
  ELSE IF pdfBuffer.format # "pdf" THEN Null                  \* pdfParse throws
  ELSE Extracted(lower(pdfBuffer.text))

extractTextFromImage_emptyOnFailure(imageBuffer, key, apiOutcome) ==
  IF key = "" \/ key = "your_api_key_here" THEN Null
  ELSE IF apiOutcome = "requestFailed" THEN Extracted("")
  ELSE IF apiOutcome = "apiError" \/ imageBuffer.format # "image" THEN Null
  ELSE IF Len(imageBuffer.text) > 0
       THEN Extracted(lower(imageBuffer.text))
       ELSE Extracted("")
extractTextFromImage(imageBuffer, key, apiOutcome) ==
  IF key = "" \/ key = "your_api_key_here" THEN Null
  ELSE IF apiOutcome = "requestFailed" THEN Null              \* axios.post throws
  ELSE IF apiOutcome = "apiError" \/ imageBuffer.format # "image" THEN Null
  ELSE IF Len(imageBuffer.text) > 0                           \* textAnnotations
       THEN Extracted(lower(imageBuffer.text))
       ELSE Extracted("")

(***************************************************************************)
(* verifyDocumentType                                                      *)
(***************************************************************************)
ImageMimeTypes == {"image/jpeg", "image/jpg", "image/png"}

MinTextLength == 50
DefaultMinConfidence == [num |-> 15, den |-> 100]

typeAliases ==
  [ castecertificate |-> <<"castecertificate", "caste", "othercastecertificate">>,
    fir |-> <<"fir">>,
    aadhaar |-> <<"aadhaar", "aadhar">>,
    medical |-> <<"medical">>,
    bankpassbook |-> <<"bankpassbook", "bank">>,
    marriagecertificate |-> <<"marriagecertificate", "marriage">>,
    scstcertificate |-> <<"scstcertificate", "scheduledcaste", "scheduledtribe">>,
    othercastecertificate |-> <<"othercastecertificate", "sebc", "obc", "castecertificate">>,
    addressproof |-> <<"addressproof", "electricbill", "utilitybill">> ]

\* Array.prototype.includes
arrayIncludes(arr, v) == \E i \in DOMAIN arr : arr[i] = v

\* lines 993-1016: do the declared and the detected type match?
typesMatch_always(expectedType, detectedType) == TRUE
typesMatch(expectedType, detectedType) ==
  LET normalizedExpected == normalizeType(expectedType)
      normalizedDetected == normalizeType(detectedType)
      aliases == IF normalizedExpected \in DOMAIN typeAliases
                 THEN typeAliases[normalizedExpected]
                 ELSE <<normalizedExpected>>
  IN  \/ normalizedExpected = normalizedDetected
      \/ arrayIncludes(aliases, normalizedDetected)

\* config?.minConfidenceScore || 0.15
minConfidenceOf(detectedType) ==
  IF /\ detectedType \in DOMAIN DOCUMENT_KEYWORDS
     /\ DOCUMENT_KEYWORDS[detectedType].minConfidenceScore.num # 0
  THEN DOCUMENT_KEYWORDS[detectedType].minConfidenceScore
  ELSE DefaultMinConfidence

\* if (extractedText === null)
extractionFailed(extractedText) == ~extractedText.ok

\* if (extractedText.trim().length < 50)
insufficientText_noTrim(extractedText) == Len(extractedText.text) < MinTextLength
insufficientText(extractedText) == Len(trim(extractedText.text)) < MinTextLength

\* if (classification.confidence >= minConfidence), in the mismatch branch
confidentMismatch_strict(classification) ==
  Greater(classification.confidence, minConfidenceOf(classification.detectedType))
confidentMismatch(classification) ==
  AtLeast(classification.confidence, minConfidenceOf(classification.detectedType))

\* verifyDocumentType from line 981 on: the decision on the classification
verifyClassified(classification, expectedType, expectedLabel) ==
  IF classification.detectedType = "unknown"
  THEN [ isValid |-> FALSE,
         message |-> "Could not identify this as a " \o expectedLabel
                       \o ". Please upload a valid " \o expectedLabel \o " document.",
         verified |-> FALSE,
         classification |-> classification ]
  ELSE IF typesMatch(expectedType, classification.detectedType)
  THEN [ isValid |-> TRUE,
         message |-> "Document verified successfully",
         verified |-> TRUE,
         detectedType |-> classification.detectedType,
         confidence |-> classification.confidence,
         matchedKeywords |-> classification.matchedKeywords,
         classification |-> classification ]
  ELSE IF confidentMismatch(classification)
  THEN [ isValid |-> FALSE,
         message |-> "Invalid document: Expected " \o expectedLabel \o " but detected "
                       \o getDocumentLabel(classification.detectedType)
                       \o ". Please upload the correct document.",
         verified |-> FALSE,
         detectedType |-> classification.detectedType,
         expectedType |-> expectedType,
         confidence |-> classification.confidence,
         matchedKeywords |-> classification.matchedKeywords,
         classification |-> classification ]
  ELSE [ isValid |-> TRUE,
         message |-> "Document uploaded (verification confidence was low)",
         verified |-> FALSE,
         classification |-> classification ]

\* verifyDocumentType from line 954 to line 979: the checks on the extraction
verifyUnclassified(extractedText, expectedType, expectedLabel) ==
  IF extractionFailed(extractedText)
  THEN [ isValid |-> FALSE,
         message |-> "Cannot verify document. Please upload a clear, readable "
                       \o expectedLabel \o " in PDF or image format.",
         verified |-> FALSE,
         skipped |-> FALSE ]
  ELSE IF insufficientText(extractedText)
  THEN [ isValid |-> FALSE,
         message |-> "Document appears to be empty, scanned, or has unreadable text. "
                       \o "Please upload a filled " \o expectedLabel
                       \o " with readable text.",
         verified |-> FALSE ]
  ELSE verifyClassified(classify(extractedText.text), expectedType, expectedLabel)

\* verifyDocumentType from line 954 on: the decision on the extraction result
verifyExtracted(extractedText, expectedType) ==
  verifyUnclassified(extractedText, expectedType, getDocumentLabel(expectedType))

\* the text extraction of lines 936-952; only called for a supported mime type
extractText(fileBuffer, mimeType, pdfParseLoaded, key, apiOutcome) ==
  IF mimeType = "application/pdf"
  THEN extractTextFromPDF(fileBuffer, pdfParseLoaded)
  ELSE extractTextFromImage(fileBuffer, key, apiOutcome)

verifyDocumentType(fileBuffer, mimeType, expectedType, pdfParseLoaded, key, apiOutcome) ==
  IF mimeType # "application/pdf" /\ mimeType \notin ImageMimeTypes
  THEN [ isValid |-> TRUE,
         message |-> "Document accepted (unsupported file type for verification)",
         skipped |-> TRUE ]
  ELSE verifyExtracted(extractText(fileBuffer, mimeType, pdfParseLoaded, key, apiOutcome),
                       expectedType)

(***************************************************************************)
(* State                                                                   *)
(***************************************************************************)
VARIABLES
  pdfParse,    \* module-level pdfParse is bound (require('pdf-parse') succeeded)
  apiKey,      \* process.env.GOOGLE_CLOUD_VISION_API_KEY
  input,       \* the arguments of a direct call of the service
  output,      \* <<>> before the call, <<what the call returned>> after it
  grievances,  \* the Grievance collection: grievance id -> record
  documents,   \* the Document collection, in order of insertion
  storage,     \* the files written to local storage
  inflight,    \* uploadDocument requests between two awaits: slot -> request or Idle
  handled,     \* number of requests received so far
  last,        \* the response sent last (history)
  calls,       \* the calls of verifyDocumentType by the controller (history)
  allocations, \* the FundAllocation collection, in order of insertion
  fundInflight,\* fundController requests between two awaits: slot -> request or Idle
  fundHandled, \* number of fundController requests received so far
  lastFund     \* the response fundController sent last (history)

serviceVars == <<pdfParse, apiKey>>
directVars  == <<input, output>>
docVars     == <<grievances, documents, storage, inflight, handled, last, calls>>
fundVars    == <<allocations, fundInflight, fundHandled, lastFund>>

vars == <<pdfParse, apiKey, input, output,
          grievances, documents, storage, inflight, handled, last, calls,
          allocations, fundInflight, fundHandled, lastFund>>

(***************************************************************************)
(* The verification service called directly                                *)
(***************************************************************************)
VerifyInputs ==
  [fn : {"verifyDocumentType"}, fileBuffer : FileBuffers,
   mimeType : MimeTypes, expectedType : ExpectedTypes]

ClassifyInputs == [fn : {"classifyDocument"}, text : RawTexts \cup LowerTexts]

Idle == [pc |-> "idle"]
NoResponse == [handler |-> "none", status |-> 0]

\* the collections and the controller before the first request
InitDocState ==
  /\ grievances = [g1 |-> [userId |-> "u1"]]
  /\ documents = <<>>
  /\ storage = <<>>
  /\ inflight = [slot \in 1..MaxRequests |-> Idle]
  /\ handled = 0
  /\ last = NoResponse
  /\ calls = <<>>

\* the FundAllocation collection and fundController before the first request
InitFundState ==
  /\ allocations = <<>>
  /\ fundInflight = [slot \in 1..MaxFundRequests |-> Idle]
  /\ fundHandled = 0
  /\ lastFund = NoResponse

InitVerify ==
  /\ pdfParse \in BOOLEAN
  /\ apiKey \in ApiKeys
  /\ input \in VerifyInputs \cup ClassifyInputs
  /\ output = <<>>
  /\ InitDocState
  /\ InitFundState

\* one call of verifyDocumentType: what it extracted and what it returned
serviceCall(fileBuffer, mimeType, expectedType, pdfParseLoaded, key, apiOutcome) ==
  [ apiOutcome |-> apiOutcome,
    attempted  |-> mimeType = "application/pdf" \/ mimeType \in ImageMimeTypes,
    extracted  |-> IF mimeType = "application/pdf" \/ mimeType \in ImageMimeTypes
                   THEN extractText(fileBuffer, mimeType, pdfParseLoaded, key, apiOutcome)
                   ELSE Null,
    result     |-> verifyDocumentType(fileBuffer, mimeType, expectedType,
                                      pdfParseLoaded, key, apiOutcome) ]

VerifyCall ==
  /\ input.fn = "verifyDocumentType"
  /\ output = <<>>
  /\ \E apiOutcome \in ApiOutcomesOf(input.mimeType, apiKey) :
       output' = << serviceCall(input.fileBuffer, input.mimeType, input.expectedType,
                                pdfParse, apiKey, apiOutcome) >>
  /\ UNCHANGED <<pdfParse, apiKey, input>>
  /\ UNCHANGED <<docVars, fundVars>>

ClassifyCall ==
  /\ input.fn = "classifyDocument"
  /\ output = <<>>
  /\ output' = << [result |-> classify(input.text)] >>
  /\ UNCHANGED <<pdfParse, apiKey, input>>
  /\ UNCHANGED <<docVars, fundVars>>

NextVerify == VerifyCall \/ ClassifyCall

SpecVerify == InitVerify /\ [][NextVerify]_vars

(***************************************************************************)
(* Properties of the verification service (checked under SpecVerify)       *)
(***************************************************************************)
VerifyDone   == output # <<>> /\ input.fn = "verifyDocumentType"
ClassifyDone == output # <<>> /\ input.fn = "classifyDocument"
Result       == output[1].result

\* the call classified the text and detected a type
Detected ==
  /\ VerifyDone
  /\ "classification" \in DOMAIN Result
  /\ Result.classification.detectedType # "unknown"

IsFalse(obj, key) == key \in DOMAIN obj /\ obj[key] = FALSE
IsTrue(obj, key)  == key \in DOMAIN obj /\ obj[key] = TRUE

\* the keywords of a list that occur in the text, by position in the list
Contained(text, kws) == {i \in DOMAIN kws : includes(text, kws[i])}

ContainsRequired(text) ==
  \E t \in DOMAIN DOCUMENT_KEYWORDS :
     Contained(text, DOCUMENT_KEYWORDS[t].required) # {}

SameRational(a, b) == a.num * b.den = b.num * a.den

\* C2: when a type was detected and it does not match the declared type,
\* the call rejects (isValid: false) exactly when the confidence is at least
\* the detected type's minConfidenceScore, and below it the call accepts
\* with isValid: true and verified: false.
C2_MismatchDecision ==
  (Detected /\ ~typesMatch(input.expectedType, Result.classification.detectedType)) =>
     LET c == Result.classification
         threshold == DOCUMENT_KEYWORDS[c.detectedType].minConfidenceScore
         confident == c.confidence.num * threshold.den >= threshold.num * c.confidence.den
     IN  /\ IsFalse(Result, "isValid") <=> confident
         /\ ~confident => IsTrue(Result, "isValid") /\ IsFalse(Result, "verified")

\* C2 witness: a mismatch at exactly the threshold (medical, 3/20 = 0.15) is
\* rejected, and a mismatch below the threshold has been accepted.
C2_Witness ==
  /\ Detected
  /\ ~typesMatch(input.expectedType, Result.classification.detectedType)
  /\ Result.classification.detectedType = "medical"
  /\ Result.classification.confidence = [num |-> 3, den |-> 20]
  /\ IsFalse(Result, "isValid")

C2_WitnessLow ==
  /\ Detected
  /\ ~typesMatch(input.expectedType, Result.classification.detectedType)
  /\ IsTrue(Result, "isValid")
  /\ IsFalse(Result, "verified")

\* the declared type is an alias name that typeAliases lists for the detected
\* (canonical) type, and not the canonical name itself
DeclaredAliasOfDetected ==
  /\ Detected
  /\ LET canonical == normalizeType(Result.classification.detectedType)
     IN  /\ canonical \in DOMAIN typeAliases
         /\ arrayIncludes(typeAliases[canonical], input.expectedType)
         /\ input.expectedType # canonical

\* C3: when the declared type is an alias name listed in typeAliases for a
\* canonical type and the classifier detects that canonical type, the call
\* returns isValid: true with verified: true.
C3_AliasAccepted ==
  DeclaredAliasOfDetected => IsTrue(Result, "isValid") /\ IsTrue(Result, "verified")

\* the score the claim C4 gives for a type
ClaimedScore(text, t) ==
  LET config == DOCUMENT_KEYWORDS[t]
      req == Cardinality(Contained(text, config.required))
      sup == Cardinality(Contained(text, config.supportive))
  IN  IF req > 0
      THEN [num |-> 3 * req + sup,
            den |-> 3 * Len(config.required) + Len(config.supportive)]
      ELSE Zero

ScoresAsClaimed ==
  \A t \in DOMAIN DOCUMENT_KEYWORDS :
     /\ t \in DOMAIN Result.allScores
     /\ SameRational(Result.allScores[t], ClaimedScore(input.text, t))
     /\ 0 <= Result.allScores[t].num
     /\ Result.allScores[t].num <= Result.allScores[t].den

\* C4 as stated: for every non-empty text and every document type the score
\* is (3 x required contained + supportive contained) / (3 x required +
\* supportive) when a required keyword is contained and 0 otherwise, and
\* lies between 0 and 1.
C4_ScoreNonEmpty ==
  (ClassifyDone /\ Len(input.text) > 0) => ScoresAsClaimed

\* C4 amended: the same for every text that is non-empty after trimming (a
\* text of white space only gets no scores at all).
C4_ScoreNonBlank ==
  (ClassifyDone /\ Len(trim(input.text)) > 0) => ScoresAsClaimed

\* C4 witness: a classified text with a type scoring strictly between 0 and 1
\* from required and supportive keywords together
C4_Witness ==
  /\ ClassifyDone
  /\ Len(trim(input.text)) > 0
  /\ "fir" \in DOMAIN Result.allScores
  /\ Result.allScores["fir"] = [num |-> 9, den |-> 78]

\* C5: classifyDocument detects a type (other than 'unknown') exactly when
\* the text contains a required keyword of some type; otherwise, whatever
\* supportive keywords the text contains, it returns 'unknown' with
\* confidence 0.
C5_RequiredOr ==
  ClassifyDone =>
     /\ Result.detectedType # "unknown" <=> ContainsRequired(input.text)
     /\ Result.detectedType = "unknown" => Result.confidence = Zero

\* C5 witness: a text with supportive keywords and no required keyword has
\* been classified 'unknown'
C5_Witness ==
  /\ ClassifyDone
  /\ ~ContainsRequired(input.text)
  /\ \E t \in DOMAIN DOCUMENT_KEYWORDS :
        Contained(input.text, DOCUMENT_KEYWORDS[t].supportive) # {}
  /\ Result.detectedType = "unknown"

\* the causes of a failed extraction that the service distinguishes
PdfFailure ==
  /\ input.mimeType = "application/pdf"
  /\ ~pdfParse \/ input.fileBuffer.format # "pdf"

ImageFailure ==
  /\ input.mimeType \in ImageMimeTypes
  /\ \/ apiKey \in {"", "your_api_key_here"}
     \/ output[1].apiOutcome \in {"apiError", "requestFailed"}

\* C6: when text extraction fails (pdf-parse missing or throwing, Vision API
\* key missing, API error or request failure: the extractor returns null),
\* the call returns isValid: false, verified: false, skipped: false for every
\* declared type and does not classify the document.
C6_ExtractionFailureRejects ==
  VerifyDone =>
     /\ (PdfFailure \/ ImageFailure) => output[1].attempted /\ ~output[1].extracted.ok
     /\ (output[1].attempted /\ ~output[1].extracted.ok) =>
          /\ IsFalse(Result, "isValid")
          /\ IsFalse(Result, "verified")
          /\ IsFalse(Result, "skipped")
          /\ "classification" \notin DOMAIN Result

\* C6 witness: a well-formed PDF whose text would verify is rejected because
\* pdf-parse is not loaded
C6_Witness ==
  /\ VerifyDone
  /\ PdfFailure
  /\ ~pdfParse
  /\ input.fileBuffer.format = "pdf"
  /\ input.expectedType = "aadhaar"
  /\ classify(lower(input.fileBuffer.text)).detectedType = "aadhaar"
  /\ Len(trim(input.fileBuffer.text)) >= MinTextLength
  /\ IsFalse(Result, "isValid")

\* C8: an extracted text of fewer than 50 characters after trimming is
\* rejected (isValid: false, verified: false) whatever keywords it contains;
\* a classification is only made of a text of at least 50 trimmed characters.
C8_ShortTextRejected ==
  VerifyDone =>
     /\ (output[1].attempted /\ output[1].extracted.ok
           /\ Len(trim(output[1].extracted.text)) < 50) =>
          /\ IsFalse(Result, "isValid")
          /\ IsFalse(Result, "verified")
     /\ "classification" \in DOMAIN Result =>
          Len(trim(output[1].extracted.text)) >= 50

\* C8 witness: a text of 49 characters after trimming (at least 50 before)
\* that contains a required keyword of the declared type has been rejected
C8_Witness ==
  /\ VerifyDone
  /\ output[1].attempted
  /\ output[1].extracted.ok
  /\ Len(output[1].extracted.text) >= 50
  /\ Len(trim(output[1].extracted.text)) = 49
  /\ input.expectedType = "fir"
  /\ ContainsRequired(output[1].extracted.text)
  /\ IsFalse(Result, "isValid")

(***************************************************************************)
(* documentController: the requests                                        *)
(***************************************************************************)
\* req.user, as the handlers read it
Users ==
  { [userId |-> "u1", role |-> "victim"],
    [userId |-> "u2", role |-> "victim"],
    [userId |-> "o1", role |-> "officer"] }

\* req.file: multer's originalname, mimetype and buffer
docFile(originalname, mimetype, format, S) ==
  [ originalname |-> originalname,
    mimetype |-> mimetype,
    buffer |-> [format |-> format, text |-> joinFragments(S, 1)] ]

NoFile == [originalname |-> "", mimetype |-> "", buffer |-> [format |-> "none", text |-> ""]]

DocFiles ==
  { docFile("aadhaar.pdf", "application/pdf", "pdf", {2, 5}),
    docFile("fir.jpg", "image/jpeg", "image", {2, 4}),
    docFile("notes.doc", "application/msword", "pdf", {2, 9}) }

DeclaredTypes == {"aadhaar", "fir"}

\* req.body and req.user of POST /api/documents/upload; "" is a missing field
UploadRequests ==
  [user : {[userId |-> "u1", role |-> "victim"]},
   file : DocFiles, grievanceId : {"g1"}, documentType : DeclaredTypes]
  \cup [user : {[userId |-> "o1", role |-> "officer"]},
        file : DocFiles, grievanceId : {"g1"}, documentType : {"fir"}]
  \cup [user : {[userId |-> "u1", role |-> "victim"]},
        file : {NoFile}, grievanceId : {"g1"}, documentType : {"fir"}]
  \cup [user : {[userId |-> "u1", role |-> "victim"]},
        file : {docFile("aadhaar.pdf", "application/pdf", "pdf", {2, 5})},
        grievanceId : {"", "g9", "g1"}, documentType : {"", "aadhaar"}]
  \cup [user : {[userId |-> "u2", role |-> "victim"]},
        file : {NoFile, docFile("aadhaar.pdf", "application/pdf", "pdf", {2, 5})},
        grievanceId : {"g9", "g1"}, documentType : {"aadhaar"}]
  \cup [user : {[userId |-> "a1", role |-> "admin"]},
        file : {docFile("aadhaar.pdf", "application/pdf", "pdf", {2, 5})},
        grievanceId : {"g1"}, documentType : {"aadhaar"}]

\* req.body of POST /api/documents/verify
VerifyRequests ==
  [file : DocFiles, expectedDocumentType : DeclaredTypes]
  \cup [file : {NoFile}, expectedDocumentType : {"fir"}]
  \cup [file : {docFile("fir.jpg", "image/jpeg", "image", {2, 4})},
        expectedDocumentType : {""}]

NoCall == [attempted |-> FALSE]

\* res.status(status).json(...): the request, the status and, as history, the
\* call of verifyDocumentType the response rests on
response(handler, req, status, message, call) ==
  [handler |-> handler, req |-> req, status |-> status, message |-> message,
   call |-> call]

\* Grievance.findById(grievanceId)
findById(grievanceId) ==
  IF grievanceId \in DOMAIN grievances THEN <<grievances[grievanceId]>> ELSE <<>>

\* Document.findByType(grievanceId, documentType): a document or null
findByType(grievanceId, documentType) ==
  \E i \in DOMAIN documents :
     /\ documents[i].grievanceId = grievanceId
     /\ documents[i].documentType = documentType
     /\ documents[i].status = "active"

\* if (!verificationResult.isValid) return res.status(400)
verificationPassed_always(verificationResult) == TRUE
verificationPassed(verificationResult) == verificationResult.isValid

\* the entry verifyDocumentType's call leaves in the history
called(handler, file, expectedType, call) ==
  [handler |-> handler, file |-> file, expectedType |-> expectedType,
   attempted |-> call.attempted, extracted |-> call.extracted,
   apiOutcome |-> call.apiOutcome, result |-> call.result]

freeSlot == CHOOSE slot \in 1..MaxRequests :
              /\ inflight[slot] = Idle
              /\ \A other \in 1..(slot - 1) : inflight[other] # Idle

(***************************************************************************)
(* uploadDocument, one action per stretch between two awaits               *)
(***************************************************************************)
\* if (req.user.role === 'victim' && grievance.userId.toString() !== req.user.userId)
uploadForbidden_never(user, grievance) == FALSE
uploadForbidden(user, grievance) ==
  user.role = "victim" /\ grievance.userId # user.userId

\* lines 16-57: the checks before the verification
uploadRejection(req) ==
  IF req.file = NoFile
  THEN <<400, "No file uploaded">>
  ELSE IF req.grievanceId = "" \/ req.documentType = ""
  THEN <<400, "Grievance ID and document type are required">>
  ELSE IF findById(req.grievanceId) = <<>>
  THEN <<404, "Grievance not found">>
  ELSE IF uploadForbidden(req.user, findById(req.grievanceId)[1])
  THEN <<403, "You do not have permission to upload documents to this grievance">>
  ELSE IF findByType(req.grievanceId, req.documentType)
  THEN <<400, "A " \o req.documentType
                \o " document has already been uploaded for this grievance">>
  ELSE <<>>

UploadStart(req) ==
  /\ handled < MaxRequests
  /\ handled' = handled + 1
  /\ IF uploadRejection(req) # <<>>
     THEN /\ last' = response("uploadDocument", req, uploadRejection(req)[1],
                              uploadRejection(req)[2], NoCall)
          /\ UNCHANGED inflight
     ELSE /\ inflight' = [inflight EXCEPT ![freeSlot] = [pc |-> "verify", req |-> req]]
          /\ UNCHANGED last
  /\ UNCHANGED <<grievances, documents, storage, calls>>
  /\ UNCHANGED <<serviceVars, directVars, fundVars>>

\* lines 62-80: the verification has returned
uploadVerified(slot, req, call) ==
  /\ calls' = Append(calls, called("uploadDocument", req.file, req.documentType, call))
  /\ IF ~verificationPassed(call.result)
     THEN /\ last' = response("uploadDocument", req, 400, call.result.message, call)
          /\ inflight' = [inflight EXCEPT ![slot] = Idle]
     ELSE /\ inflight' = [inflight EXCEPT ![slot] =
                            [pc |-> "store", req |-> req, call |-> call]]
          /\ UNCHANGED last

UploadVerify(slot) ==
  /\ inflight[slot].pc = "verify"
  /\ \E apiOutcome \in ApiOutcomesOf(inflight[slot].req.file.mimetype, apiKey) :
       uploadVerified(slot, inflight[slot].req,
                      serviceCall(inflight[slot].req.file.buffer,
                                  inflight[slot].req.file.mimetype,
                                  inflight[slot].req.documentType,
                                  pdfParse, apiKey, apiOutcome))
  /\ UNCHANGED <<grievances, documents, storage, handled>>
  /\ UNCHANGED <<serviceVars, directVars, fundVars>>

\* storageService.uploadFile's entry in local storage
storedFile(req) ==
  [folderId |-> req.grievanceId, fileName |-> req.file.originalname,
   mimeType |-> req.file.mimetype]

\* new Document({...}) of lines 97-108
newDocument(req) ==
  [ grievanceId |-> req.grievanceId,
    documentType |-> req.documentType,
    originalFileName |-> req.file.originalname,
    mimeType |-> req.file.mimetype,
    uploadedBy |-> req.user.userId,
    status |-> "active" ]

StoreOutcomes == {"ok", "storageError", "saveError"}

\* lines 86-137: the file is written, the Document saved, the response sent
uploadStored(slot, req, call, outcome) ==
  /\ inflight' = [inflight EXCEPT ![slot] = Idle]
  /\ storage' = IF outcome = "storageError" THEN storage
                ELSE Append(storage, storedFile(req))
  /\ documents' = IF outcome = "ok" THEN Append(documents, newDocument(req))
                  ELSE documents
  /\ last' = IF outcome = "ok"
             THEN response("uploadDocument", req, 201,
                           IF Field(call.result, "verified", FALSE)
                           THEN "Document uploaded and verified successfully"
                           ELSE "Document uploaded successfully", call)
             ELSE response("uploadDocument", req, 500, "Failed to upload document", call)

UploadStore(slot) ==
  /\ inflight[slot].pc = "store"
  /\ \E outcome \in StoreOutcomes :
       uploadStored(slot, inflight[slot].req, inflight[slot].call, outcome)
  /\ UNCHANGED <<grievances, handled, calls>>
  /\ UNCHANGED <<serviceVars, directVars, fundVars>>

(***************************************************************************)
(* verifyDocument                                                          *)
(***************************************************************************)
\* if (verificationResult.isValid) return res.status(200) else res.status(400)
verifyStatus_alwaysOk(verificationResult) == 200
verifyStatus(verificationResult) == IF verificationResult.isValid THEN 200 ELSE 400

verifyResponded(req, call) ==
  /\ calls' = Append(calls, called("verifyDocument", req.file,
                                   req.expectedDocumentType, call))
  /\ last' = response("verifyDocument", req,
                      verifyStatus(call.result),
                      call.result.message, call)

VerifyDocument(req) ==
  /\ handled < MaxRequests
  /\ handled' = handled + 1
  /\ IF req.file = NoFile
     THEN /\ last' = response("verifyDocument", req, 400,
                              "No file provided for verification", NoCall)
          /\ UNCHANGED calls
     ELSE IF req.expectedDocumentType = ""
     THEN /\ last' = response("verifyDocument", req, 400,
                              "Expected document type is required", NoCall)
          /\ UNCHANGED calls
     ELSE \E apiOutcome \in ApiOutcomesOf(req.file.mimetype, apiKey) :
            verifyResponded(req, serviceCall(req.file.buffer, req.file.mimetype,
                                             req.expectedDocumentType,
                                             pdfParse, apiKey, apiOutcome))
  /\ UNCHANGED <<grievances, documents, storage, inflight>>
  /\ UNCHANGED <<serviceVars, directVars, fundVars>>

(***************************************************************************)
(* downloadDocument and deleteDocument                                     *)
(***************************************************************************)
Admin == [userId |-> "a1", role |-> "admin"]

UnknownDocumentId == 0

\* req.params and req.user of GET /:documentId/download and DELETE /:documentId;
\* a document's _id is its position in the collection
DocumentRequests ==
  [user : (Users \cup {Admin}) \ {[userId |-> "u2", role |-> "victim"]}, documentId : {UnknownDocumentId} \cup DOMAIN documents]

\* Document.findById(documentId)
findDocumentById(documentId) ==
  IF documentId \in DOMAIN documents THEN <<documents[documentId]>> ELSE <<>>

\* fs.existsSync(path.join(googleDriveFolderId, googleDriveFileId))
existsSync(document) ==
  \E k \in DOMAIN storage :
     /\ storage[k].folderId = document.grievanceId
     /\ storage[k].fileName = document.originalFileName

\* if (req.user.role !== 'officer' && req.user.role !== 'admin') return 403
mayDownload(user) == user.role = "officer" \/ user.role = "admin"

\* if (req.user.role !== 'admin') return 403
mayDelete_officers(user) == user.role = "officer" \/ user.role = "admin"
mayDelete(user) == user.role = "admin"

downloadResponse(req) ==
  IF findDocumentById(req.documentId) = <<>>
  THEN response("downloadDocument", req, 404, "Document not found", NoCall)
  ELSE IF findDocumentById(req.documentId)[1].status = "deleted"
  THEN response("downloadDocument", req, 404, "Document not found", NoCall)
  ELSE IF ~mayDownload(req.user)
  THEN response("downloadDocument", req, 403, "Only officers can download documents", NoCall)
  ELSE IF ~existsSync(findDocumentById(req.documentId)[1])
  THEN response("downloadDocument", req, 404, "File not found on server", NoCall)
  ELSE response("downloadDocument", req, 200,
                findDocumentById(req.documentId)[1].originalFileName, NoCall)

DownloadDocument(req) ==
  /\ handled < MaxRequests
  /\ handled' = handled + 1
  /\ last' = downloadResponse(req)
  /\ UNCHANGED <<grievances, documents, storage, inflight, calls>>
  /\ UNCHANGED <<serviceVars, directVars, fundVars>>

\* document.softDelete()
softDelete(document) == [document EXCEPT !.status = "deleted"]

DeleteDocument(req) ==
  /\ handled < MaxRequests
  /\ handled' = handled + 1
  /\ IF findDocumentById(req.documentId) = <<>>
     THEN /\ last' = response("deleteDocument", req, 404, "Document not found", NoCall)
          /\ UNCHANGED documents
     ELSE IF ~mayDelete(req.user)
     THEN /\ last' = response("deleteDocument", req, 403,
                              "Only administrators can delete documents", NoCall)
          /\ UNCHANGED documents
     ELSE /\ documents' = [documents EXCEPT ![req.documentId] = softDelete(@)]
          /\ last' = response("deleteDocument", req, 200,
                              "Document deleted successfully", NoCall)
  /\ UNCHANGED <<grievances, storage, inflight, calls>>
  /\ UNCHANGED <<serviceVars, directVars, fundVars>>

NoInput == [fn |-> "none"]

\* an upload answered 201 before the behaviour starts
earlierUpload ==
  [user |-> [userId |-> "u1", role |-> "victim"],
   file |-> docFile("fir.jpg", "image/jpeg", "image", {2, 4}),
   grievanceId |-> "g1", documentType |-> "fir"]

\* the Document collection at the start: empty, or holding the document of an
\* earlier upload, active or soft-deleted since
InitialDocuments ==
  { <<>>, <<newDocument(earlierUpload)>>, <<softDelete(newDocument(earlierUpload))>> }

\* the service as deployed: pdf-parse installed and the Vision API key set, or neither
ServiceSetups == { <<TRUE, "AIza-key">>, <<FALSE, "">> }

InitDoc ==
  /\ \E setup \in ServiceSetups : pdfParse = setup[1] /\ apiKey = setup[2]
  /\ input = NoInput
  /\ output = <<>>
  /\ grievances = [g1 |-> [userId |-> "u1"]]
  /\ documents \in InitialDocuments
  /\ storage = IF documents = <<>> THEN <<>> ELSE <<storedFile(earlierUpload)>>
  /\ inflight = [slot \in 1..MaxRequests |-> Idle]
  /\ handled = 0
  /\ last = NoResponse
  /\ calls = <<>>
  /\ InitFundState

NextDoc ==
  \/ \E req \in UploadRequests : UploadStart(req)
  \/ \E slot \in 1..MaxRequests : UploadVerify(slot)
  \/ \E slot \in 1..MaxRequests : UploadStore(slot)
  \/ \E req \in VerifyRequests : VerifyDocument(req)
  \/ \E req \in DocumentRequests : DownloadDocument(req)
  \/ \E req \in DocumentRequests : DeleteDocument(req)

SpecDoc == InitDoc /\ [][NextDoc]_vars


(***************************************************************************)
(* Properties of uploadDocument and verifyDocument                         *)
(***************************************************************************)
UploadAccepted == last.handler = "uploadDocument" /\ last.status = 201

Classified(result) == "classification" \in DOMAIN result

\* the classifier detected a type and it matched the declared one
DetectedMatches(result, declaredType) ==
  /\ Classified(result)
  /\ result.classification.detectedType # "unknown"
  /\ typesMatch(declaredType, result.classification.detectedType)

\* the classifier detected another type, with a confidence below that type's threshold
LowConfidenceMismatch(result, declaredType) ==
  /\ Classified(result)
  /\ result.classification.detectedType # "unknown"
  /\ ~typesMatch(declaredType, result.classification.detectedType)
  /\ ~AtLeast(result.classification.confidence,
              minConfidenceOf(result.classification.detectedType))

\* C1, as stated: every upload request that ends with status 201 had the
\* classifier's detected type match the declared documentType.
C1_AcceptedOnlyIfMatched ==
  UploadAccepted => DetectedMatches(last.call.result, last.req.documentType)

\* C1, amended: an upload request ends with status 201, with the file stored and
\* the Document created, only when verifyDocumentType returned isValid: true,
\* which it does when the detected type matched the declared one, when the mime
\* type is neither PDF nor image (no verification), or when another type was
\* detected with a confidence below that type's minConfidenceScore.
C1_AcceptedOnlyIfValid ==
  UploadAccepted =>
    /\ last.call.result.isValid
    /\ \/ /\ DetectedMatches(last.call.result, last.req.documentType)
          /\ IsTrue(last.call.result, "verified")
       \/ /\ ~last.call.attempted
          /\ last.req.file.mimetype \notin ImageMimeTypes \cup {"application/pdf"}
          /\ IsTrue(last.call.result, "skipped")
       \/ /\ LowConfidenceMismatch(last.call.result, last.req.documentType)
          /\ IsFalse(last.call.result, "verified")
    /\ Len(documents) > 0
    /\ documents[Len(documents)] = newDocument(last.req)
    /\ \E k \in DOMAIN storage : storage[k] = storedFile(last.req)

\* C1: an upload was answered 201 after the classifier found the declared type
C1_Witness ==
  /\ UploadAccepted
  /\ DetectedMatches(last.call.result, last.req.documentType)
  /\ Len(documents) > 0

\* what a caller reads of a result; <<>> stands for a field that is absent
optional(obj, key) == IF key \in DOMAIN obj THEN <<obj[key]>> ELSE <<>>

verdict(result) ==
  << optional(result, "isValid"), optional(result, "verified"),
     optional(result, "detectedType"), optional(result, "confidence") >>

\* two calls with the same extracted text, mime type and declared type
SameArguments(a, b) ==
  /\ a.attempted = b.attempted
  /\ a.extracted = b.extracted
  /\ a.file.mimetype = b.file.mimetype
  /\ a.expectedType = b.expectedType

DeterministicCalls ==
  \A i, j \in DOMAIN calls :
     SameArguments(calls[i], calls[j]) => verdict(calls[i].result) = verdict(calls[j].result)

\* calls[i] is verifyDocument accepting a file for a type, calls[j] a later
\* uploadDocument rejecting the same file for the same type
AcceptedThenRejected(i, j) ==
  /\ i < j
  /\ calls[i].handler = "verifyDocument"
  /\ calls[j].handler = "uploadDocument"
  /\ calls[i].file = calls[j].file
  /\ calls[i].expectedType = calls[j].expectedType
  /\ calls[i].result.isValid
  /\ ~calls[j].result.isValid

Undefined == <<>>

\* fundAllocationSchema.pre('save')
preSave(doc) ==
  [doc EXCEPT
     !.amountRemaining = <<doc.sanctionedAmount - doc.amountUtilized>>,
     !.status = IF doc.amountUtilized = 0
                THEN (IF doc.allocatedToOfficer # Undefined THEN "allocated"
                      ELSE "sanctioned")
                ELSE IF doc.sanctionedAmount - doc.amountUtilized > 0
                THEN "partially_utilized"
                ELSE "fully_utilized"]

\* if (amount > this.amountRemaining); a comparison with undefined is false
insufficientFunds_never(doc, amount) == FALSE
insufficientFunds(doc, amount) ==
  /\ doc.amountRemaining # Undefined
  /\ amount > doc.amountRemaining[1]

linkedCase(caseId, amount) == [caseId |-> caseId, amountDisbursed |-> amount]

\* methods.utilizeFund after the check: the document as this.save() leaves it
utilized(doc, caseId, amount) ==
  preSave([doc EXCEPT !.amountUtilized = @ + amount,
                      !.linkedCases = Append(@, linkedCase(caseId, amount))])

\* this.save() of a loaded document: the modified paths are $set, the pushed
\* element is $push-ed on the stored array
saved(stored, loaded, doc, caseId, amount) ==
  [stored EXCEPT
     !.amountUtilized = IF doc.amountUtilized # loaded.amountUtilized
                        THEN doc.amountUtilized ELSE @,
     !.amountRemaining = IF doc.amountRemaining # loaded.amountRemaining
                         THEN doc.amountRemaining ELSE @,
     !.status = IF doc.status # loaded.status THEN doc.status ELSE @,
     !.linkedCases = Append(@, linkedCase(caseId, amount))]

(***************************************************************************)
(* fundController: the requests                                            *)
(***************************************************************************)
Officer == [userId |-> "o1", role |-> "officer"]
Victim  == [userId |-> "u1", role |-> "victim"]

\* a request without credentials: authenticate sets no req.user
NoUser  == [userId |-> "", role |-> "none"]

(***************************************************************************)
(* fundRoutes: the router's stack, in the order of registration            *)
(***************************************************************************)
router ==
  << [layer |-> "route", method |-> "GET",  path |-> "/flow",        handler |-> "getFundFlow"],
     [layer |-> "route", method |-> "POST", path |-> "/seed-demo",   handler |-> "seedDemoData"],
     [layer |-> "use",   method |-> "",     path |-> "",             handler |-> "authenticate"],
     [layer |-> "route", method |-> "GET",  path |-> "/stats",       handler |-> "getFundStats"],
     [layer |-> "route", method |-> "GET",  path |-> "/allocations", handler |-> "getAllocations"],
     [layer |-> "route", method |-> "POST", path |-> "/allocate",    handler |-> "createFundAllocation"],
     [layer |-> "route", method |-> "POST", path |-> "/utilize",     handler |-> "utilizeFund"] >>

routeOf(handler) == CHOOSE k \in DOMAIN router : router[k].handler = handler

\* router.use(authenticate) is registered before the handler's route
behindAuthenticate(handler) ==
  \E k \in 1..(routeOf(handler) - 1) : router[k].handler = "authenticate"

\* authenticate calls next() for a request with credentials, and req.user is theirs
authenticatePasses(req) == req.user # NoUser

\* the request gets to the handler through the layers registered before it
reaches(handler, req) == behindAuthenticate(handler) => authenticatePasses(req)

ProtectedHandlers == { router[k].handler : k \in {j \in DOMAIN router :
                         router[j].layer = "route" /\ behindAuthenticate(router[j].handler)} }

SeedSanctionNumber == "MSJ/2024/SC-ST/001"

\* req.body and req.user of POST /api/funds/allocate; "" and <<>> are missing fields
AllocateRequests ==
  [user : {Officer}, sanctionNumber : {SeedSanctionNumber, "S1"},
   sanctionedAmount : {<<1000000>>, <<-100000>>}]
  \cup [user : {Victim}, sanctionNumber : {"S1"}, sanctionedAmount : {<<1000000>>}]
  \cup [user : {Officer}, sanctionNumber : {""}, sanctionedAmount : {<<1000000>>}]
  \cup [user : {Officer}, sanctionNumber : {"S1"}, sanctionedAmount : {Undefined}]

Amounts == {-100000, 500000, 1000000, 6000000}

UnknownId == 0

\* req.body and req.user of POST /api/funds/utilize; an allocation's _id is its
\* position in the collection
UtilizeRequests ==
  [user : {Officer}, allocationId : {UnknownId} \cup DOMAIN allocations,
   caseId : {"c1"}, amount : Amounts]
  \cup [user : {Victim}, allocationId : {1} \cap DOMAIN allocations,
        caseId : {"c1"}, amount : {500000}]

fundResponse(handler, req, status, message, loaded, doc) ==
  [handler |-> handler, req |-> req, status |-> status, message |-> message,
   loaded |-> loaded, doc |-> doc]

\* requests whose body and query the handler does not read
BareRequests == [user : {NoUser, Officer}]

freeFundSlot == CHOOSE slot \in 1..MaxFundRequests :
                  /\ fundInflight[slot] = Idle
                  /\ \A other \in 1..(slot - 1) : fundInflight[other] # Idle

\* the unique index on sanctionNumber
sanctionNumberTaken(sanctionNumber) ==
  \E i \in DOMAIN allocations : allocations[i].sanctionNumber = sanctionNumber

(***************************************************************************)
(* createFundAllocation                                                    *)
(***************************************************************************)
\* new FundAllocation({...}) of lines 145-155
newAllocation(req) ==
  [ sanctionNumber |-> req.sanctionNumber,
    sanctionedAmount |-> req.sanctionedAmount[1],
    allocatedToOfficer |-> <<req.user.userId>>,
    amountUtilized |-> 0,
    amountRemaining |-> req.sanctionedAmount,
    linkedCases |-> <<>>,
    status |-> "sanctioned" ]

CreateFundAllocation(req) ==
  /\ reaches("createFundAllocation", req)
  /\ fundHandled < MaxFundRequests
  /\ fundHandled' = fundHandled + 1
  /\ IF req.sanctionNumber = "" \/ req.sanctionedAmount = Undefined
     THEN /\ lastFund' = fundResponse("createFundAllocation", req, 500,
                                      "FundAllocation validation failed", <<>>, <<>>)
          /\ UNCHANGED allocations
     ELSE IF sanctionNumberTaken(req.sanctionNumber)
     THEN /\ lastFund' = fundResponse("createFundAllocation", req, 500,
                                      "E11000 duplicate key error", <<>>, <<>>)
          /\ UNCHANGED allocations
     ELSE /\ allocations' = Append(allocations, preSave(newAllocation(req)))
          /\ lastFund' = fundResponse("createFundAllocation", req, 201,
                                      "Fund allocation created successfully",
                                      <<>>, <<preSave(newAllocation(req))>>)
  /\ UNCHANGED fundInflight
  /\ UNCHANGED <<serviceVars, directVars, docVars>>

(***************************************************************************)
(* seedDemoData                                                            *)
(***************************************************************************)
demoAllocation(sanctionNumber, sanctionedAmount, amountUtilized, status) ==
  [ sanctionNumber |-> sanctionNumber,
    sanctionedAmount |-> sanctionedAmount,
    allocatedToOfficer |-> Undefined,
    amountUtilized |-> amountUtilized,
    amountRemaining |-> Undefined,
    linkedCases |-> <<>>,
    status |-> status ]

demoAllocations ==
  << demoAllocation(SeedSanctionNumber, 5000000, 820000, "partially_utilized"),
     demoAllocation("MH/SWD/2024/102", 2500000, 500000, "partially_utilized"),
     demoAllocation("DT/PUNE/2024/045", 1000000, 0, "allocated") >>

\* lines 232-240: FundAllocation.findOne({ sanctionNumber })
SeedStart(req) ==
  /\ reaches("seedDemoData", req)
  /\ fundHandled < MaxFundRequests
  /\ fundHandled' = fundHandled + 1
  /\ IF sanctionNumberTaken(SeedSanctionNumber)
     THEN /\ lastFund' = fundResponse("seedDemoData", req, 200,
                                      "Demo data already exists", <<>>, <<>>)
          /\ UNCHANGED fundInflight
     ELSE /\ fundInflight' = [fundInflight EXCEPT ![freeFundSlot] = [pc |-> "insert", req |-> req]]
          /\ UNCHANGED lastFund
  /\ UNCHANGED allocations
  /\ UNCHANGED <<serviceVars, directVars, docVars>>

\* lines 280-293: FundAllocation.insertMany(demoAllocations); no save middleware
\* runs, and the first duplicate sanctionNumber ends the ordered insert
SeedInsert(slot) ==
  /\ fundInflight[slot].pc = "insert"
  /\ fundInflight' = [fundInflight EXCEPT ![slot] = Idle]
  /\ IF sanctionNumberTaken(SeedSanctionNumber)
     THEN /\ lastFund' = fundResponse("seedDemoData", fundInflight[slot].req, 500,
                                      "E11000 duplicate key error", <<>>, <<>>)
          /\ UNCHANGED allocations
     ELSE /\ allocations' = allocations \o demoAllocations
          /\ lastFund' = fundResponse("seedDemoData", fundInflight[slot].req, 201,
                                      "Demo fund allocations created successfully",
                                      <<>>, <<>>)
  /\ UNCHANGED fundHandled
  /\ UNCHANGED <<serviceVars, directVars, docVars>>

(***************************************************************************)
(* utilizeFund                                                             *)
(***************************************************************************)
\* lines 204-207: FundAllocation.findById(allocationId)
UtilizeLoad(req) ==
  /\ reaches("utilizeFund", req)
  /\ fundHandled < MaxFundRequests
  /\ fundHandled' = fundHandled + 1
  /\ IF req.allocationId \notin DOMAIN allocations
     THEN /\ lastFund' = fundResponse("utilizeFund", req, 404,
                                      "Fund allocation not found", <<>>, <<>>)
          /\ UNCHANGED fundInflight
     ELSE /\ fundInflight' = [fundInflight EXCEPT ![freeFundSlot] =
                                [pc |-> "utilize", req |-> req,
                                 loaded |-> allocations[req.allocationId]]]
          /\ UNCHANGED lastFund
  /\ UNCHANGED allocations
  /\ UNCHANGED <<serviceVars, directVars, docVars>>

\* lines 209-223 and methods.utilizeFund: the check, the update, the save
utilizeLoaded(slot, req, loaded) ==
  /\ fundInflight' = [fundInflight EXCEPT ![slot] = Idle]
  /\ IF insufficientFunds(loaded, req.amount)
     THEN /\ lastFund' = fundResponse("utilizeFund", req, 500,
                                      "Insufficient funds in this allocation",
                                      <<loaded>>, <<loaded>>)
          /\ UNCHANGED allocations
     ELSE /\ allocations' =
               [allocations EXCEPT ![req.allocationId] =
                  saved(@, loaded, utilized(loaded, req.caseId, req.amount),
                        req.caseId, req.amount)]
          /\ lastFund' = fundResponse("utilizeFund", req, 200,
                                      "utilized from fund allocation", <<loaded>>,
                                      <<utilized(loaded, req.caseId, req.amount)>>)

UtilizeFund(slot) ==
  /\ fundInflight[slot].pc = "utilize"
  /\ utilizeLoaded(slot, fundInflight[slot].req, fundInflight[slot].loaded)
  /\ UNCHANGED fundHandled
  /\ UNCHANGED <<serviceVars, directVars, docVars>>

(***************************************************************************)
(* The layers and handlers that write nothing                              *)
(***************************************************************************)
\* authenticate answers a request without credentials itself; next() is not called
AuthenticateRejects(handler) ==
  /\ fundHandled < MaxFundRequests
  /\ fundHandled' = fundHandled + 1
  /\ ~reaches(handler, [user |-> NoUser])
  /\ lastFund' = fundResponse("authenticate", [user |-> NoUser, route |-> handler],
                              401, "Authentication required", <<>>, <<>>)
  /\ UNCHANGED <<allocations, fundInflight>>
  /\ UNCHANGED <<serviceVars, directVars, docVars>>

\* allocations.reduce((sum, a) => sum + a[path], 0): a sum with an undefined
\* term is NaN, written Undefined
RECURSIVE reduceSum(_, _, _)
reduceSum(docs, path, k) ==
  IF k > Len(docs) THEN <<0>>
  ELSE IF reduceSum(docs, path, k + 1) = Undefined THEN Undefined
  ELSE IF path = "amountRemaining"
  THEN (IF docs[k].amountRemaining = Undefined THEN Undefined
        ELSE <<docs[k].amountRemaining[1] + reduceSum(docs, path, k + 1)[1]>>)
  ELSE <<docs[k][path] + reduceSum(docs, path, k + 1)[1]>>

\* data.fundSource of getFundStats
fundSource(docs) ==
  [ totalSanctioned |-> reduceSum(docs, "sanctionedAmount", 1),
    totalUtilized   |-> reduceSum(docs, "amountUtilized", 1),
    totalRemaining  |-> reduceSum(docs, "amountRemaining", 1),
    allocationsCount |-> Len(docs) ]

GetFundStats(req) ==
  /\ reaches("getFundStats", req)
  /\ fundHandled < MaxFundRequests
  /\ fundHandled' = fundHandled + 1
  /\ lastFund' = fundResponse("getFundStats", req, 200, "", <<>>, <<fundSource(allocations)>>)
  /\ UNCHANGED <<allocations, fundInflight>>
  /\ UNCHANGED <<serviceVars, directVars, docVars>>

GetAllocations(req) ==
  /\ reaches("getAllocations", req)
  /\ fundHandled < MaxFundRequests
  /\ fundHandled' = fundHandled + 1
  /\ lastFund' = fundResponse("getAllocations", req, 200, "", <<>>, allocations)
  /\ UNCHANGED <<allocations, fundInflight>>
  /\ UNCHANGED <<serviceVars, directVars, docVars>>

GetFundFlow(req) ==
  /\ reaches("getFundFlow", req)
  /\ fundHandled < MaxFundRequests
  /\ fundHandled' = fundHandled + 1
  /\ lastFund' = fundResponse("getFundFlow", req, 200,
                              "NyayaSetu Fund Disbursement Flow", <<>>, <<>>)
  /\ UNCHANGED <<allocations, fundInflight>>
  /\ UNCHANGED <<serviceVars, directVars, docVars>>

InitFund ==
  /\ pdfParse = TRUE
  /\ apiKey = ""
  /\ input = NoInput
  /\ output = <<>>
  /\ InitDocState
  /\ InitFundState

NextFund ==
  \/ \E req \in AllocateRequests : CreateFundAllocation(req)
  \/ \E req \in BareRequests : SeedStart(req)
  \/ \E slot \in 1..MaxFundRequests : SeedInsert(slot)
  \/ \E req \in UtilizeRequests : UtilizeLoad(req)
  \/ \E slot \in 1..MaxFundRequests : UtilizeFund(slot)
  \/ \E handler \in ProtectedHandlers : AuthenticateRejects(handler)
  \/ \E req \in BareRequests : GetFundStats(req)
  \/ \E req \in BareRequests : GetAllocations(req)
  \/ \E req \in BareRequests : GetFundFlow(req)

SpecFund == InitFund /\ [][NextFund]_vars

(***************************************************************************)
(* Properties of the fund allocations                                      *)
(***************************************************************************)
\* utilizeFund finishes, in this step, a request for more than the loaded
\* allocation's amountRemaining
OverdrawFinishes(slot) ==
  /\ fundInflight[slot].pc = "utilize"
  /\ fundInflight'[slot] = Idle
  /\ fundInflight[slot].loaded.amountRemaining # Undefined
  /\ fundInflight[slot].req.amount > fundInflight[slot].loaded.amountRemaining[1]

C10_UtilizedWithinSanctioned ==
  \A i \in DOMAIN allocations :
     /\ 0 <= allocations[i].amountUtilized
     /\ allocations[i].amountUtilized <= allocations[i].sanctionedAmount


\* C11: every stored fund allocation, whichever operation wrote it, has
\* amountRemaining = sanctionedAmount - amountUtilized, and the totals that
\* getFundStats reports satisfy totalRemaining = totalSanctioned - totalUtilized.
C11_RemainingAutoCalculated ==
  /\ \A i \in DOMAIN allocations :
        allocations[i].amountRemaining =
          <<allocations[i].sanctionedAmount - allocations[i].amountUtilized>>
  /\ (lastFund.handler = "getFundStats" /\ lastFund.status = 200) =>
        lastFund.doc[1].totalRemaining =
          <<lastFund.doc[1].totalSanctioned[1] - lastFund.doc[1].totalUtilized[1]>>


\* C12: after any sequence and any interleaving of uploadDocument requests
\* for the same grievanceId and documentType, at most one of them ends with
\* status 201 and at most one active Document record of that type is stored.
C12_OneDocumentPerType ==
  \A i, j \in DOMAIN documents :
     ( /\ documents[i].grievanceId = documents[j].grievanceId
       /\ documents[i].documentType = documents[j].documentType
       /\ documents[i].status = "active"
       /\ documents[j].status = "active" ) => i = j


\* a request without credentials is answered in this step
UnauthenticatedAnswered ==
  /\ lastFund' # lastFund
  /\ lastFund'.req.user = NoUser

\* C13: a request that does not pass the authenticate middleware never
\* reaches getFundStats, getAllocations, createFundAllocation or utilizeFund,
\* and no fund allocation is created or modified by an unauthenticated request.
C13_FundEndpointsProtected ==
  [][ UnauthenticatedAnswered =>
        /\ lastFund'.handler \notin ProtectedHandlers
        /\ allocations' = allocations ]_vars


Answers(handler) == last' # last /\ last'.handler = handler

Entitled(req) ==
  \/ req.user.role \in {"officer", "admin"}
  \/ /\ req.grievanceId \in DOMAIN grievances
     /\ grievances[req.grievanceId].userId = req.user.userId

\* the request has a file, a grievanceId and a documentType, and the grievance exists
WellFormed(req) ==
  /\ req.file # NoFile
  /\ req.grievanceId # "" /\ req.documentType # ""
  /\ req.grievanceId \in DOMAIN grievances

C17_VerifyIsPure ==
  [][ Answers("verifyDocument") =>
        /\ storage' = storage
        /\ documents' = documents
        /\ grievances' = grievances
        /\ inflight' = inflight
        /\ last'.status \in {200, 400, 500}
        /\ last'.status = 200 <=> (last'.call # NoCall /\ last'.call.result.isValid)
        /\ (last'.call # NoCall /\ ~last'.call.result.isValid) => last'.status = 400 ]_vars

\* C17: verifyDocument called verifyDocumentType on a file, got isValid: false
\* and answered 400, with a document and its file in store
C17_Witness ==
  /\ last.handler = "verifyDocument"
  /\ last.call # NoCall
  /\ ~last.call.result.isValid
  /\ last.status = 400
  /\ Len(documents) > 0 /\ Len(storage) > 0


(***************************************************************************)
(* Properties of the verification service: verified results                *)
(***************************************************************************)
Verified == VerifyDone /\ IsTrue(Result, "verified")

\* the reported confidence is at least the minConfidenceScore of the reported type
ConfidentResult ==
  LET threshold == DOCUMENT_KEYWORDS[Result.detectedType].minConfidenceScore
  IN  Result.confidence.num * threshold.den >= threshold.num * Result.confidence.den

\* the reported type is the declared type, or an alias listed for the declared type
DeclaredIsDetected ==
  LET normalizedExpected == normalizeType(input.expectedType)
      normalizedDetected == normalizeType(Result.detectedType)
  IN  \/ normalizedExpected = normalizedDetected
      \/ /\ normalizedExpected \in DOMAIN typeAliases
         /\ arrayIncludes(typeAliases[normalizedExpected], normalizedDetected)

====
